---- MODULE Spec2Model ----
(***************************************************************************)
(* csv_to_json.py: generate_json(csv_file, schema, array_output).          *)
(*                                                                         *)
(* A Python str is a sequence of code points (65 = "A", 97 = "a",          *)
(* 48 = "0", 32 = " ", ...), so that lower(), strip(), float(), int(),     *)
(* str.format() and the string comparison of list.sort() are computed as   *)
(* Python computes them.  Output-field names and schema keys, which the    *)
(* code only ever compares for equality, are TLA+ strings.                 *)
(***************************************************************************)
EXTENDS Integers, Sequences, FiniteSets, TLC

VARIABLES
    schema,        \* the schema dict passed to generate_json
    array_output,  \* the array_output flag passed to generate_json
    consumed,      \* the rows the csv.DictReader has yielded so far, as read
    series_dict,   \* the defaultdict, as the sequence of its items in insertion
                   \* order: [key, points, fields]
    out,           \* what print() has written to stdout so far
    pc,            \* "reading" (row loop), "writing" (output loop), "done"
                   \* (returned), "raised_in_rows" / "raised_in_output" (an
                   \* exception left the row loop / the output loop)
    exc,           \* the class of that exception, "none" when none was raised
    pos,           \* number of series_dict.values() the output loop has passed
    first          \* the local `first` of the array output

vars == <<schema, array_output, consumed, series_dict, out, pc, exc, pos, first>>

\* Largest number of data rows the input file holds.
MaxRows == 3

-----------------------------------------------------------------------------
(* Python built-ins used by the row loop                                   *)

\* str.lower() on one code point: "A".."Z" become "a".."z".
LowerChar(c) == IF c \in 65..90 THEN c + 32 ELSE c

\* k.lower() / cfg["source"].lower() / col.lower()
Lower(s) == [i \in 1..Len(s) |-> LowerChar(s[i])]

IsSpace(c) == c \in {9, 10, 13, 32}

RECURSIVE LStrip(_)
LStrip(s) == IF s # <<>> /\ IsSpace(Head(s)) THEN LStrip(Tail(s)) ELSE s

RECURSIVE RStrip(_)
RStrip(s) ==
    IF s # <<>> /\ IsSpace(s[Len(s)]) THEN RStrip(SubSeq(s, 1, Len(s) - 1)) ELSE s

\* v.strip()
Strip(s) == RStrip(LStrip(s))

IsDigit(c) == c \in 48..57

\* Does int(s) / float(s) parse?  The cells and mapped texts of this model are
\* trimmed strings of digits or of letters other than "inf", "nan" and the
\* like, without sign, point, exponent or underscore: among those, int() and
\* float() accept exactly the non-empty strings of decimal digits.
Parseable(s) == s # <<>> /\ \A i \in 1..Len(s) : IsDigit(s[i])

RECURSIVE ParseNum(_)
ParseNum(s) ==
    IF s = <<>> THEN 0 ELSE 10 * ParseNum(SubSeq(s, 1, Len(s) - 1)) + (s[Len(s)] - 48)

\* A Python scalar: a str, or the float / int a transform produced.
StrVal(s)   == [t |-> "str",   s |-> s,    n |-> 0]
FloatVal(n) == [t |-> "float", s |-> <<>>, n |-> n]
IntVal(n)   == [t |-> "int",   s |-> <<>>, n |-> n]

\* transform_funcs.get(tag, lambda x: x): does applying it to `s` raise ValueError?
TransformRaises(tag, s) == tag \in {"float", "int"} /\ ~Parseable(s)

\* transform_funcs.get(tag, lambda x: x)(s) when it does not raise; an absent
\* tag ("None") and an unknown tag are the identity.
Transform(tag, s) ==
    CASE tag = "float" -> FloatVal(ParseNum(s))
      [] tag = "int"   -> IntVal(ParseNum(s))
      [] OTHER         -> StrVal(s)

\* dict.get(key, default)
Get(d, k, default) == IF k \in DOMAIN d THEN d[k] ELSE default

EmptyDict == <<>>

-----------------------------------------------------------------------------
(* The inputs: the CSV file's header and rows, and the schemas             *)

\* Header of the CSV file: "Category", "Sex", "X", "Y".
hCategory == <<67, 97, 116, 101, 103, 111, 114, 121>>
hSex      == <<83, 101, 120>>
hX        == <<88>>
hY        == <<89>>

\* csv.DictReader row: header column -> the cell as written in the file.  Every
\* data row has one cell for each column of the header (a shorter or longer
\* row, for which DictReader supplies None, is no input of this model: line 79
\* raises AttributeError on it before anything is derived).
Row(c, s, x, y) == (hCategory :> c) @@ (hSex :> s) @@ (hX :> x) @@ (hY :> y)

\* The data rows a file may hold (cells are written as the strings they are):
\*   "A","M","2","5"      "A"," F ","10"," 7 "    "B","M","1","z"
\*   "B","U","01",""      "A","M","","5"
RawRows ==
    { Row(<<65>>, <<77>>, <<50>>, <<53>>),
      Row(<<65>>, <<32, 70, 32>>, <<49, 48>>, <<32, 55, 32>>),
      Row(<<66>>, <<77>>, <<49>>, <<122>>),
      Row(<<66>>, <<85>>, <<48, 49>>, <<>>),
      Row(<<65>>, <<77>>, <<>>, <<53>>) }

\* "fields": {"category": {"source": "Category"}, "sex": {"source": "SEX"}}
FieldsCS ==
    [category |-> [source |-> hCategory], sex |-> [source |-> <<83, 69, 88>>]]

\* "fields": {"category": {"source": "category"},
\*            "n": {"source": "x", "transform": "int"}}
FieldsN ==
    [category |-> [source |-> Lower(hCategory)],
     n |-> [source |-> <<120>>, transform |-> "int"]]

\* "points": {"x": "x", "y": "Y", "transform": "float"}
PointsFloat == [x |-> <<120>>, y |-> hY, transform |-> "float"]

\* "points": {"x": "X", "y": "y", "transform": "upper"}   (an unknown tag)
PointsUnknown == [x |-> hX, y |-> <<121>>, transform |-> "upper"]

\* "points": {"x": "X", "y": "Z"}   (the file has no column z)
PointsNoColumn == [x |-> hX, y |-> <<90>>]

\* "mappings": {"y": {"z": "9"}}
MappingsY == << [col |-> <<121>>, table |-> (<<122>> :> <<57>>)] >>

\* "mappings": {"SEX": {"M": "Male", "F": "Female"}}
MappingsSex ==
    << [col |-> <<83, 69, 88>>,
        table |-> (<<77>> :> <<77, 97, 108, 101>>)
                  @@ (<<70>> :> <<70, 101, 109, 97, 108, 101>>)] >>

Lit(s) == [kind |-> "lit", lit |-> s, ref |-> ""]
Ref(f) == [kind |-> "ref", lit |-> <<>>, ref |-> f]

\* "{category}_s"
TemplateCategory == <<Ref("category"), Lit(<<95, 115>>)>>
\* "{sex}-{category}"
TemplateSexCategory == <<Ref("sex"), Lit(<<45>>), Ref("category")>>
\* "n{n}"
TemplateN == <<Lit(<<110>>), Ref("n")>>
\* "{missing}"
TemplateMissing == <<Ref("missing")>>

SchemaFull ==
    [group_by |-> <<"category">>, fields |-> FieldsCS, points |-> PointsFloat,
     id_template |-> TemplateCategory, mappings |-> MappingsSex]

Schemas ==
    { SchemaFull,
      [group_by |-> <<"sex", "category">>, fields |-> FieldsCS,
       points |-> PointsUnknown, id_template |-> TemplateSexCategory,
       mappings |-> MappingsSex],
      [group_by |-> <<"n">>, fields |-> FieldsN, points |-> PointsFloat,
       id_template |-> TemplateN, mappings |-> MappingsY],
      [group_by |-> <<"category">>, fields |-> FieldsCS,
       points |-> PointsNoColumn, id_template |-> TemplateCategory],
      [group_by |-> <<"category">>, fields |-> FieldsCS, points |-> PointsFloat,
       id_template |-> TemplateMissing, mappings |-> MappingsSex],
      \* the schemas that omit group_by, fields or points
      [fields |-> FieldsCS, points |-> PointsFloat,
       id_template |-> TemplateCategory, mappings |-> MappingsSex],
      [group_by |-> <<"category">>, points |-> PointsFloat],
      [group_by |-> <<"category">>, fields |-> FieldsCS,
       id_template |-> TemplateCategory, mappings |-> MappingsSex],
      [points |-> PointsUnknown, mappings |-> MappingsSex],
      [id_template |-> TemplateCategory] }

-----------------------------------------------------------------------------
(* generate_json: the schema lookups                                       *)

group_by      == Get(schema, "group_by", <<>>)
fields_schema == Get(schema, "fields", EmptyDict)
points_schema == Get(schema, "points", EmptyDict)
id_template   == Get(schema, "id_template", <<>>)
mappings      == Get(schema, "mappings", <<>>)

-----------------------------------------------------------------------------
(* generate_json: the body of the row loop                                 *)

\* row = {k.lower(): v.strip() for k, v in row.items()}, over the columns
\* `cols` of the row (no two columns of the header differ by case only).
RECURSIVE NormalizeColumns(_, _)
NormalizeColumns(raw, cols) ==
    IF cols = {} THEN EmptyDict
    ELSE LET k == CHOOSE c \in cols : TRUE
         IN  (Lower(k) :> Strip(raw[k])) @@ NormalizeColumns(raw, cols \ {k})

Normalize(raw) == NormalizeColumns(raw, DOMAIN raw)

\* for col, map_dict in mappings.items(): ...
RECURSIVE ApplyMappings(_, _)
ApplyMappings(row, ms) ==
    IF ms = <<>> THEN row
    ELSE LET col_lower == Lower(Head(ms).col)
             map_dict  == Head(ms).table
             mapped    == IF col_lower \in DOMAIN row
                          THEN [row EXCEPT ![col_lower] =
                                    Get(map_dict, row[col_lower], row[col_lower])]
                          ELSE row
         IN  ApplyMappings(mapped, Tail(ms))

\* Mutant: the mappings are not applied.
NormalizedRow_Unmapped(raw) == Normalize(raw)

\* The row as the field, grouping and point steps see it.
NormalizedRow(raw) == ApplyMappings(Normalize(raw), mappings)

\* val = row.get(cfg["source"].lower(), "")
FieldSource(row, cfg) == Get(row, Lower(cfg.source), <<>>)

\* Does the field loop raise ValueError on this row?
MapFieldsRaises(row) ==
    \E key \in DOMAIN fields_schema :
        TransformRaises(Get(fields_schema[key], "transform", "None"),
                        FieldSource(row, fields_schema[key]))

\* fields = {key: transform(val) for key, cfg in fields_schema.items()}
MapFields(row) ==
    [key \in DOMAIN fields_schema |->
        Transform(Get(fields_schema[key], "transform", "None"),
                  FieldSource(row, fields_schema[key]))]

\* fields[g] raises KeyError for a group_by name that is no field.
GroupingKeyRaises(fields) == \E i \in 1..Len(group_by) : group_by[i] \notin DOMAIN fields

\* key = tuple(fields[g] for g in group_by)
GroupingKey(fields) == [i \in 1..Len(group_by) |-> fields[group_by[i]]]

HasKey(sd, key) == \E i \in 1..Len(sd) : sd[i].key = key

IndexOfKey(sd, key) == CHOOSE i \in 1..Len(sd) : sd[i].key = key

\* Mutant: every lookup inserts a fresh series.
Lookup_AlwaysInsert(sd, key) ==
    Append(sd, [key |-> key, points |-> <<>>, fields |-> EmptyDict])

\* Mutant: a new series is put before the ones already held.
Lookup_InsertFirst(sd, key) ==
    IF HasKey(sd, key) THEN sd
    ELSE <<[key |-> key, points |-> <<>>, fields |-> EmptyDict]>> \o sd

\* series_dict[key] of the defaultdict: a missing key is inserted, last, with
\* {"points": [], "fields": {}}.
Lookup(sd, key) ==
    IF HasKey(sd, key) THEN sd
    ELSE Append(sd, [key |-> key, points |-> <<>>, fields |-> EmptyDict])

\* Mutant: the fields are stored on every row of the key (last write wins).
InitializeFields_Overwrite(sd, key, fields) ==
    LET sd1 == Lookup(sd, key)
        i   == IndexOfKey(sd1, key)
    IN  [sd1 EXCEPT ![i].fields = fields]

\* if not series_dict[key]["fields"]: series_dict[key]["fields"] = fields
InitializeFields(sd, key, fields) ==
    LET sd1 == Lookup(sd, key)
        i   == IndexOfKey(sd1, key)
    IN  IF DOMAIN sd1[i].fields = {} THEN [sd1 EXCEPT ![i].fields = fields] ELSE sd1

\* points_schema.get("x").lower(): None has no lower().
PointColumnsRaise == "x" \notin DOMAIN points_schema \/ "y" \notin DOMAIN points_schema

x_val(row) == Get(row, Lower(points_schema.x), <<>>)
y_val(row) == Get(row, Lower(points_schema.y), <<>>)

\* Mutant: only x is tested.
HasPoint_OnlyX(row) == x_val(row) # <<>>

\* if x_val and y_val:
HasPoint(row) == x_val(row) # <<>> /\ y_val(row) # <<>>

PointTransform == Get(points_schema, "transform", "None")

\* series_dict[key]["points"].append([x_val, y_val])
AppendPoint(sd, key, row) ==
    LET i == IndexOfKey(sd, key)
    IN  [sd EXCEPT ![i].points =
            Append(@, [x |-> x_val(row), y |-> Transform(PointTransform, y_val(row))])]

\* One pass of the loop body over a row of the file: the exception it raises
\* ("none" when it completes) and series_dict as it leaves it.
RowStep(sd, raw) ==
    LET row == NormalizedRow(raw) IN
    IF MapFieldsRaises(row) THEN [exc |-> "ValueError", sd |-> sd]
    ELSE
    LET fields == MapFields(row) IN
    IF GroupingKeyRaises(fields) THEN [exc |-> "KeyError", sd |-> sd]
    ELSE
    LET key == GroupingKey(fields)
        sd1 == InitializeFields(sd, key, fields)
    IN
    IF PointColumnsRaise THEN [exc |-> "AttributeError", sd |-> sd1]
    ELSE IF ~HasPoint(row) THEN [exc |-> "none", sd |-> sd1]
    ELSE IF TransformRaises(PointTransform, y_val(row))
         THEN [exc |-> "ValueError", sd |-> sd1]
         ELSE [exc |-> "none", sd |-> AppendPoint(sd1, key, row)]

-----------------------------------------------------------------------------
(* generate_json: the output                                               *)

\* Python's str comparison: by code point, a proper prefix first.
RECURSIVE StrLess(_, _)
StrLess(a, b) ==
    IF b = <<>> THEN FALSE
    ELSE IF a = <<>> THEN TRUE
    ELSE IF Head(a) # Head(b) THEN Head(a) < Head(b)
    ELSE StrLess(Tail(a), Tail(b))

\* list.sort is stable: p goes after the points whose x is not greater.
RECURSIVE Insert(_, _)
Insert(p, sorted) ==
    IF sorted = <<>> THEN <<p>>
    ELSE IF StrLess(p.x, Head(sorted).x) THEN <<p>> \o sorted
    ELSE <<Head(sorted)>> \o Insert(p, Tail(sorted))

\* Mutant: the points are left in arrival order.
SortPoints_Unsorted(ps) == ps

\* data["points"].sort(key=lambda x: x[0])
RECURSIVE SortPoints(_)
SortPoints(ps) ==
    IF ps = <<>> THEN <<>>
    ELSE Insert(ps[Len(ps)], SortPoints(SubSeq(ps, 1, Len(ps) - 1)))

RECURSIVE Digits(_)
Digits(n) == IF n < 10 THEN <<48 + n>> ELSE Digits(n \div 10) \o <<48 + (n % 10)>>

\* format() of a scalar: a str as it is, an int in decimal, a float as "<n>.0".
ToStr(v) ==
    CASE v.t = "str"   -> v.s
      [] v.t = "int"   -> Digits(v.n)
      [] v.t = "float" -> Digits(v.n) \o <<46, 48>>

\* id_template.format(**fields) raises KeyError for a placeholder that is no field.
FormatRaises(template, fields) ==
    \E i \in 1..Len(template) :
        template[i].kind = "ref" /\ template[i].ref \notin DOMAIN fields

\* id_template.format(**fields)
RECURSIVE Format(_, _)
Format(template, fields) ==
    IF template = <<>> THEN <<>>
    ELSE LET part == Head(template)
         IN  (IF part.kind = "lit" THEN part.lit ELSE ToStr(fields[part.ref]))
             \o Format(Tail(template), fields)

\* What is written to stdout: one character, or one json.dumps(series_json, indent).
Char(c)          == [kind |-> "char", c |-> c, indent |-> "None", doc |-> <<>>]
Dumps(d, indent) == [kind |-> "doc", c |-> "", indent |-> indent, doc |-> <<d>>]

\* print(*chunks, end=end)
PrintTo(o, chunks, end) == o \o chunks \o end

Newline == <<Char("\n")>>

SeriesJson(data) ==
    [series_id |-> Format(id_template, data.fields),
     points    |-> data.points,
     fields    |-> data.fields]

\* Mutant: the separator is written after every document.
WriteSeries_CommaAfter(o, data) ==
    IF array_output
    THEN PrintTo(PrintTo(o, <<Dumps(SeriesJson(data), "2")>>, <<>>), <<Char(",")>>, <<>>)
    ELSE PrintTo(o, <<Dumps(SeriesJson(data), "None")>>, Newline)

\* One pass of the output loop over the series `data` (already sorted): what
\* stdout holds after it.
WriteSeries(o, data) ==
    IF array_output
    THEN PrintTo(IF ~first THEN PrintTo(o, <<Char(",")>>, <<>>) ELSE o,
                 <<Dumps(SeriesJson(data), "2")>>, <<>>)
    ELSE PrintTo(o, <<Dumps(SeriesJson(data), "None")>>, Newline)

-----------------------------------------------------------------------------
(* The run                                                                 *)

Init ==
    /\ schema \in Schemas
    /\ array_output \in BOOLEAN
    /\ consumed = <<>>
    /\ series_dict = <<>>
    /\ out = <<>>
    /\ pc = "reading"
    /\ exc = "none"
    /\ pos = 0
    /\ first = TRUE

\* Mutant: a row that raises is skipped and the loop goes on.
ProcessRow_SkipBadRow ==
    /\ pc = "reading"
    /\ Len(consumed) < MaxRows
    /\ \E raw \in RawRows :
         LET r == RowStep(series_dict, raw) IN
         /\ consumed' = Append(consumed, raw)
         /\ series_dict' = r.sd
         /\ exc' = "none"
         /\ pc' = "reading"
    /\ UNCHANGED <<schema, array_output, out, pos, first>>

\* for row in reader: one row of the file goes through the loop body.
ProcessRow ==
    /\ pc = "reading"
    /\ Len(consumed) < MaxRows
    /\ \E raw \in RawRows :
         LET r == RowStep(series_dict, raw) IN
         /\ consumed' = Append(consumed, raw)
         /\ series_dict' = r.sd
         /\ exc' = r.exc
         /\ pc' = IF r.exc = "none" THEN "reading" ELSE "raised_in_rows"
    /\ UNCHANGED <<schema, array_output, out, pos, first>>

\* The reader is exhausted: the with block ends and the output starts.
EndOfInput ==
    /\ pc = "reading"
    /\ pc' = "writing"
    /\ out' = IF array_output THEN PrintTo(out, <<Char("[")>>, Newline) ELSE out
    /\ first' = TRUE
    /\ UNCHANGED <<schema, array_output, consumed, series_dict, exc, pos>>

\* Mutant: a failed rendering takes back what was written.
EmitSeries_Rollback ==
    /\ pc = "writing"
    /\ pos < Len(series_dict)
    /\ LET i      == pos + 1
           sorted == [series_dict EXCEPT ![i].points = SortPoints(@)]
       IN  /\ series_dict' = sorted
           /\ IF FormatRaises(id_template, sorted[i].fields)
              THEN /\ pc' = "raised_in_output"
                   /\ exc' = "KeyError"
                   /\ out' = <<>>
                   /\ UNCHANGED <<pos, first>>
              ELSE /\ out' = WriteSeries(out, sorted[i])
                   /\ pos' = i
                   /\ first' = FALSE
                   /\ UNCHANGED <<pc, exc>>
    /\ UNCHANGED <<schema, array_output, consumed>>

\* for data in series_dict.values(): one series is sorted, rendered and written.
EmitSeries ==
    /\ pc = "writing"
    /\ pos < Len(series_dict)
    /\ LET i      == pos + 1
           sorted == [series_dict EXCEPT ![i].points = SortPoints(@)]
       IN  /\ series_dict' = sorted
           /\ IF FormatRaises(id_template, sorted[i].fields)
              THEN /\ pc' = "raised_in_output"
                   /\ exc' = "KeyError"
                   /\ UNCHANGED <<out, pos, first>>
              ELSE /\ out' = WriteSeries(out, sorted[i])
                   /\ pos' = i
                   /\ first' = FALSE
                   /\ UNCHANGED <<pc, exc>>
    /\ UNCHANGED <<schema, array_output, consumed>>

\* The output loop is over: print("\n]") in array mode, and the run returns.
Finish ==
    /\ pc = "writing"
    /\ pos = Len(series_dict)
    /\ out' = IF array_output
              THEN PrintTo(out, <<Char("\n"), Char("]")>>, Newline)
              ELSE out
    /\ pc' = "done"
    /\ UNCHANGED <<schema, array_output, consumed, series_dict, exc, pos, first>>

Next == ProcessRow \/ EndOfInput \/ EmitSeries \/ Finish

Spec == Init /\ [][Next]_vars

-----------------------------------------------------------------------------
(* What the input says, read off the consumed rows alone                   *)

IsDoc(t) == t.kind = "doc"

\* The series documents written so far (each a series_json), in the order written.
RECURSIVE DocsOf(_)
DocsOf(o) ==
    IF o = <<>> THEN <<>>
    ELSE (IF IsDoc(Head(o)) THEN Head(o).doc ELSE <<>>) \o DocsOf(Tail(o))

Docs == DocsOf(out)

\* The text the mappings should leave in the cell of header column h: the
\* trimmed cell, replaced by the mapped text when a table is given for the
\* column (names compared lower-cased) and the trimmed cell is one of its keys.
MappedCell(raw, h) ==
    LET v == Strip(raw[h])
        M == {m \in 1..Len(mappings) : Lower(mappings[m].col) = Lower(h)}
    IN  IF M = {} THEN v
        ELSE LET table == mappings[CHOOSE m \in M : TRUE].table
             IN  IF v \in DOMAIN table THEN table[v] ELSE v

\* The row the mappings should leave: lower-cased column -> mapped cell.
RECURSIVE MappedRowOver(_, _)
MappedRowOver(raw, cols) ==
    IF cols = {} THEN <<>>
    ELSE LET h == CHOOSE c \in cols : TRUE
         IN  (Lower(h) :> MappedCell(raw, h)) @@ MappedRowOver(raw, cols \ {h})

MappedRow(raw) == MappedRowOver(raw, DOMAIN raw)

\* The value read from that row for a column name of the schema ("" when the
\* file has no such column).
ValueAt(mrow, name) == IF Lower(name) \in DOMAIN mrow THEN mrow[Lower(name)] ELSE <<>>

\* What one row of the file means under the schema, read off its cells: the
\* mapped row, whether it reaches the aggregator (no field is unparseable,
\* every group_by name is a declared field), its derived fields and grouping
\* key, whether its x or y is empty or missing (skipped), whether a float or
\* int transform meets a value it cannot parse (unparseable), and the point it
\* contributes.
RowFacts(raw) ==
    LET mrow     == MappedRow(raw)
        tag(f)   == IF "transform" \in DOMAIN fields_schema[f]
                    THEN fields_schema[f].transform ELSE "None"
        cell(f)  == ValueAt(mrow, fields_schema[f].source)
        numeric(t) == t \in {"float", "int"}
        badfield == \E f \in DOMAIN fields_schema : numeric(tag(f)) /\ ~Parseable(cell(f))
        keyed    == /\ ~badfield
                    /\ \A g \in 1..Len(group_by) : group_by[g] \in DOMAIN fields_schema
        fields   == IF keyed
                    THEN [f \in DOMAIN fields_schema |-> Transform(tag(f), cell(f))]
                    ELSE EmptyDict
        columns  == {"x", "y"} \subseteq DOMAIN points_schema
        x        == ValueAt(mrow, points_schema.x)
        y        == ValueAt(mrow, points_schema.y)
        ytag     == IF "transform" \in DOMAIN points_schema
                    THEN points_schema.transform ELSE "None"
        both     == keyed /\ columns /\ x # <<>> /\ y # <<>>
        bady     == both /\ numeric(ytag) /\ ~Parseable(y)
    IN  [row     |-> mrow,
         keyed   |-> keyed,
         fields  |-> fields,
         key     |-> IF keyed THEN [g \in 1..Len(group_by) |-> fields[group_by[g]]]
                     ELSE <<>>,
         skipped |-> keyed /\ columns /\ (x = <<>> \/ y = <<>>),
         unparseable |-> badfield \/ bady,
         pointed |-> both /\ ~bady,
         point   |-> IF both /\ ~bady
                     THEN <<[x |-> x, y |-> Transform(ytag, y)]>>
                     ELSE <<>>]

\* The facts of the rows consumed so far, in file order.
RECURSIVE FactsOf(_)
FactsOf(rows) ==
    IF rows = <<>> THEN <<>>
    ELSE Append(FactsOf(SubSeq(rows, 1, Len(rows) - 1)), RowFacts(rows[Len(rows)]))

Produces(facts, i, key) == facts[i].keyed /\ facts[i].key = key

\* The first row of the file that produced `key` (0 when none did).
FirstRowOf(facts, key) ==
    IF \E i \in 1..Len(facts) : Produces(facts, i, key)
    THEN CHOOSE i \in 1..Len(facts) :
            /\ Produces(facts, i, key)
            /\ \A j \in 1..(i - 1) : ~Produces(facts, j, key)
    ELSE 0

\* The points of the rows that produced `key`, in file order.
RECURSIVE PointsOf(_, _)
PointsOf(facts, key) ==
    IF facts = <<>> THEN <<>>
    ELSE LET n == Len(facts)
         IN  PointsOf(SubSeq(facts, 1, n - 1), key)
             \o (IF Produces(facts, n, key) THEN facts[n].point ELSE <<>>)

KeysSeen(facts) == {facts[i].key : i \in {j \in 1..Len(facts) : facts[j].keyed}}

\* a <= b as Python compares str: a is a prefix of b, or a has the smaller
\* code point where they first differ.
LexLeq(a, b) ==
    \/ Len(a) <= Len(b) /\ \A i \in 1..Len(a) : a[i] = b[i]
    \/ \E i \in 1..Len(a) :
          /\ i <= Len(b)
          /\ a[i] < b[i]
          /\ \A j \in 1..(i - 1) : a[j] = b[j]

-----------------------------------------------------------------------------
(* Claims                                                                  *)

\* C1: in both output modes, the points of every series document written are
\* sorted non-decreasing by x under string (code point, lexicographic)
\* comparison, whatever order the rows arrived in.
C1_PointsSortedByX ==
    LET docs == Docs IN
    \A j \in 1..Len(docs) :
        \A k \in 1..(Len(docs[j].points) - 1) :
            LexLeq(docs[j].points[k].x, docs[j].points[k + 1].x)

\* C1 witness: a document was written whose rows arrived with x "2" before
\* x "10", and it lists "10" first.
C1_Witness ==
    /\ Len(consumed) >= 2
    /\ consumed[1][hX] = <<50>>
    /\ consumed[2][hX] = <<49, 48>>
    /\ \E j \in 1..Len(Docs) :
          /\ Len(Docs[j].points) = 2
          /\ Docs[j].points[1].x = <<49, 48>>
          /\ Docs[j].points[2].x = <<50>>

\* C2: first-write-wins.  At every moment the fields held for a grouping key
\* are the derived fields of the first row that produced the key, and so are
\* the fields of the document written for it; later rows of the key change
\* nothing in them.
C2_FirstWriteWins ==
    LET facts == FactsOf(consumed)
        docs  == Docs
    IN
    /\ \A i \in 1..Len(series_dict) :
          LET f == FirstRowOf(facts, series_dict[i].key)
          IN  f # 0 /\ series_dict[i].fields = facts[f].fields
    /\ \A j \in 1..Len(docs) :
          docs[j].fields = facts[FirstRowOf(facts, GroupingKey(docs[j].fields))].fields

\* C2 witness: a document was written for a key that two rows produced with
\* different derived fields (a different non-grouping field value).
C2_Witness ==
    /\ pc = "done"
    /\ LET facts == FactsOf(consumed) IN
       \E j \in 1..Len(Docs) :
          \E a, b \in 1..Len(facts) :
              /\ a < b
              /\ Produces(facts, a, GroupingKey(Docs[j].fields))
              /\ Produces(facts, b, GroupingKey(Docs[j].fields))
              /\ facts[a].fields # facts[b].fields

\* C3 as written: on a completed run the number of series documents equals
\* the number of distinct grouping keys among the rows that have at least one
\* derivation that was not skipped (a declared field, or a point).
C3_AsWritten ==
    pc = "done" =>
        LET facts == FactsOf(consumed)
            rows  == {i \in 1..Len(facts) :
                        /\ facts[i].keyed
                        /\ (DOMAIN fields_schema # {} \/ facts[i].pointed)}
        IN  Len(Docs) = Cardinality({facts[i].key : i \in rows})

\* C3 amended: on a completed run the number of series documents equals the
\* number of distinct grouping keys among all the rows of the input, a row
\* without fields and without a point included, and exactly one document is
\* written per key.
C3_OneSeriesPerKey ==
    pc = "done" =>
        LET facts == FactsOf(consumed)
            docs  == Docs
        IN  /\ \A i \in 1..Len(facts) : facts[i].keyed
            /\ Len(docs) = Cardinality(KeysSeen(facts))
            /\ {GroupingKey(docs[j].fields) : j \in 1..Len(docs)} = KeysSeen(facts)

\* C3 witness: a completed run over three rows with two distinct keys, one of
\* them produced twice.
C3_Witness ==
    /\ pc = "done"
    /\ Len(consumed) = 3
    /\ Len(Docs) = 2
    /\ Len(group_by) > 0

\* C4: no document is written before the last row of the input has been
\* aggregated, and the documents are written in the order in which their
\* grouping keys first occurred in the input, in both output modes.
C4_EmittedInFirstSeenOrder ==
    /\ pc \in {"reading", "raised_in_rows"} => out = <<>>
    /\ LET facts == FactsOf(consumed)
           docs  == Docs
       IN  \A i, j \in 1..Len(docs) :
              i < j => FirstRowOf(facts, GroupingKey(docs[i].fields))
                         < FirstRowOf(facts, GroupingKey(docs[j].fields))

\* C4 witness: rows with keys k1, k2, k1 in this order, and both documents
\* written.
C4_Witness ==
    /\ pc = "done"
    /\ Len(consumed) = 3
    /\ Len(Docs) = 2
    /\ LET facts == FactsOf(consumed)
       IN  facts[1].key = facts[3].key /\ facts[1].key # facts[2].key

C6_OmissionNeverErrors ==
    {"group_by", "fields", "points"} \ DOMAIN schema # {} =>
        (pc = "raised_in_rows" => exc = "ValueError")

\* C7: a transform error aborts the run at the row that has it: no later row
\* is processed, nothing is written (zero series documents), and the output
\* is only ever started when every row was processed without one.
C7_TransformErrorAborts ==
    LET facts == FactsOf(consumed)
        n     == Len(facts)
    IN
    /\ \A i \in 1..n :
          facts[i].unparseable =>
              /\ i = n
              /\ pc = "raised_in_rows"
              /\ exc = "ValueError"
              /\ out = <<>>
              /\ ~ENABLED Next
    /\ (pc = "raised_in_rows" /\ exc = "ValueError") => facts[n].unparseable
    /\ pc = "done" => Len(Docs) = Len(series_dict)

\* C7 witness: the third row has an unparseable value; two rows were
\* aggregated before it and nothing was written.
C7_Witness ==
    /\ pc = "raised_in_rows"
    /\ exc = "ValueError"
    /\ Len(consumed) = 3
    /\ Len(series_dict) >= 1
    /\ \E i \in 1..Len(series_dict) : Len(series_dict[i].points) >= 1

\* C8 as written: in array mode with zero input rows the output is exactly
\* "[", newline, newline, "]".
C8_AsWritten ==
    (array_output /\ pc = "done" /\ consumed = <<>>) =>
        out = <<Char("["), Char("\n"), Char("\n"), Char("]")>>

\* C8 amended: in array mode a completed run over n >= 0 series has written
\* "[" and a newline, the n indented documents with a "," immediately before
\* every document but the first (max(n-1, 0) separators), then a newline, "]"
\* and a final newline; with zero rows the output is exactly "[\n\n]\n".
C8_ArrayFraming ==
    (array_output /\ pc = "done") =>
        LET n    == Len(series_dict)
            body == IF n = 0 THEN 0 ELSE 2 * n - 1
        IN  /\ Len(out) = 2 + body + 3
            /\ out[1] = Char("[") /\ out[2] = Char("\n")
            /\ \A k \in 1..n : IsDoc(out[2 * k + 1]) /\ out[2 * k + 1].indent = "2"
            /\ \A k \in 1..(n - 1) : out[2 * k + 2] = Char(",")
            /\ out[body + 3] = Char("\n")
            /\ out[body + 4] = Char("]")
            /\ out[body + 5] = Char("\n")
            /\ consumed = <<>> =>
                  out = <<Char("["), Char("\n"), Char("\n"), Char("]"), Char("\n")>>

\* C8 witness: a completed array-mode run that wrote three documents.
C8_Witness ==
    /\ array_output
    /\ pc = "done"
    /\ Len(Docs) = 3

\* C9: the mappings are applied to the trimmed cells, column names matched
\* case-insensitively, before anything is derived: a cell becomes the mapped
\* text when it is a key of its column's table and stays as it is otherwise,
\* columns without a mapping are untouched, and the fields, the grouping key
\* and the points held are derived from the mapped cells.
C9_MappingsBeforeDerivation ==
    LET facts == FactsOf(consumed) IN
    /\ \A i \in 1..Len(consumed) : NormalizedRow(consumed[i]) = facts[i].row
    /\ \A i \in 1..Len(series_dict) :
          LET e    == series_dict[i]
              mrow == facts[FirstRowOf(facts, e.key)].row
          IN  /\ \A f \in DOMAIN e.fields :
                    e.fields[f] =
                        Transform(Get(fields_schema[f], "transform", "None"),
                                  ValueAt(mrow, fields_schema[f].source))
              /\ \A g \in 1..Len(group_by) : e.key[g] = e.fields[group_by[g]]
              /\ \A p \in 1..Len(e.points) :
                    \E j \in 1..Len(facts) :
                        /\ e.points[p].x = ValueAt(facts[j].row, points_schema.x)
                        /\ e.points[p].y =
                              Transform(PointTransform,
                                        ValueAt(facts[j].row, points_schema.y))

\* C9 witness: a row with the cell " F " in a mapped column was aggregated
\* into a series whose sex field and grouping key are "Female", and a row
\* with the unmapped code "U" into one whose sex field is "U".
C9_Witness ==
    /\ Len(mappings) > 0
    /\ \E i \in 1..Len(consumed) : consumed[i][hSex] = <<32, 70, 32>>
    /\ \E i \in 1..Len(series_dict) :
          /\ "sex" \in DOMAIN series_dict[i].fields
          /\ series_dict[i].fields["sex"] = StrVal(<<70, 101, 109, 97, 108, 101>>)
          /\ Len(series_dict[i].key) = 2
          /\ series_dict[i].key[1] = StrVal(<<70, 101, 109, 97, 108, 101>>)
    /\ \E i \in 1..Len(series_dict) :
          /\ "sex" \in DOMAIN series_dict[i].fields
          /\ series_dict[i].fields["sex"] = StrVal(<<85>>)

\* The placeholders of id_template that name no declared field.
MissingRefs ==
    {i \in 1..Len(id_template) :
        id_template[i].kind = "ref" /\ id_template[i].ref \notin DOMAIN fields_schema}

\* C10: rendering series_id raises KeyError when id_template references a
\* field that the series' fields do not hold; the run stops there, the failing
\* series' document and the later ones are not written, and what was written
\* before the failure stays written.
C10_TemplateErrorAborts ==
    /\ pc = "raised_in_output" =>
          /\ exc = "KeyError"
          /\ MissingRefs # {}
          /\ pos < Len(series_dict)
          /\ Len(Docs) = pos
          /\ out = IF array_output THEN <<Char("["), Char("\n")>> ELSE <<>>
          /\ ~ENABLED Next
    /\ Len(Docs) > 0 => MissingRefs = {}
    /\ (pc = "done" /\ Len(series_dict) > 0) => MissingRefs = {}

\* C10 witness: in array mode the template names a field no series has; the
\* run stopped at the first series with the opening bracket written.
C10_Witness ==
    /\ pc = "raised_in_output"
    /\ exc = "KeyError"
    /\ array_output
    /\ Len(series_dict) = 2
    /\ out # <<>>

====
